---- MODULE Spec2Model ----
(***************************************************************************)
(* A model of wdsoo/aropt.py: class ARO, the builder of the adaptive       *)
(* robust optimisation program of a water distribution network.            *)
(*                                                                         *)
(* Element names are the ordinals 1..Len(network) of the elements in the   *)
(* network; any other number is a name of no element.  Time steps, table   *)
(* rows and positions of x are numbered from 0, as in the code.            *)
(***************************************************************************)
EXTENDS Integers, Sequences, FiniteSets, TLC

VARIABLES
    num_steps,   \* sim.num_steps
    network,     \* sim.network: the controllable elements, in table order
    tanks,       \* sim.network.tanks, in dictionary order
    vars,        \* sim.vars: one row per position of x (columns name, time, comb)
    pc,          \* the phase: "new" before ARO.__init__, "constructed" after it, "built"
                 \* after the builders, "solved" after solve() returned OPTIMAL and
                 \* "no_solution" after it returned another status, "analysed" after the
                 \* evaluation of a sample, "failed" after a call raised
    x_len,       \* self.x.shape[0]
    z_shape,     \* self.z.shape = nominal_demands.shape
    dep,         \* the adaptation of x: position -> entries <<s, k>> of z it is affine in
    model,       \* self.model: the constraints declared so far
    ret,         \* how the last call ended: returned value or raised error
    columns,     \* element name -> the columns of element.vars beyond the loaded ones
    written,     \* which extraction last wrote the shared value / inflow columns
    loop         \* the position of analyze_sample / tank_vol_by_sample

cfgvars == <<num_steps, network, tanks, vars>>
arovars == <<pc, x_len, z_shape, dep>>
allvars == <<num_steps, network, tanks, vars, pc, x_len, z_shape, dep, model, ret,
             columns, written, loop>>

----------------------------------------------------------------------------
(* Bounds of the model *)

MaxSteps == 3
MaxElements == 2
MaxCombs == 2
MaxTanks == 2

----------------------------------------------------------------------------
(* Arithmetic helpers *)

RECURSIVE SumOver(_, _)
SumOver(S, f) ==
    IF S = {} THEN 0
    ELSE LET a == CHOOSE a \in S : TRUE IN f[a] + SumOver(S \ {a}, f)

SeqRange(q) == {q[i] : i \in DOMAIN q}

(* A pandas / numpy scalar: a number or nan *)
NaN == [nan |-> TRUE, v |-> 0]
Num(n) == [nan |-> FALSE, v |-> n]
\* Index.min() / Index.max() of an index S of rows of a table of n rows: the least and
\* the greatest member, nan for an empty index
RECURSIVE LeastFrom(_, _, _)
LeastFrom(S, p, n) ==
    IF p >= n THEN NaN ELSE IF p \in S THEN Num(p) ELSE LeastFrom(S, p + 1, n)

RECURSIVE GreatestFrom(_, _)
GreatestFrom(S, p) ==
    IF p < 0 THEN NaN ELSE IF p \in S THEN Num(p) ELSE GreatestFrom(S, p - 1)

TableRows(tbl) == Cardinality(DOMAIN tbl)

IndexMin(S, n) == LeastFrom(S, 0, n)
IndexMax(S, n) == GreatestFrom(S, n - 1)
\* nan + 1 is nan
PlusOne(a) == IF a.nan THEN NaN ELSE Num(a.v + 1)

----------------------------------------------------------------------------
(* The network: elements and the decision table *)

CombKinds == {"pump_station", "control_valve"}
PlainKinds == {"vsp", "well", "valve"}

\* an element: its collection in the network and len(element.combs), 0 when it has no combs
ElementTypes ==
    [kind : CombKinds, combs : 1..MaxCombs] \cup [kind : PlainKinds, combs : {0}]

Networks == UNION {[1..n -> ElementTypes] : n \in 1..MaxElements}

\* hasattr(element, 'combs')
HasCombs(e) == e.combs > 0

\* the width of one time step's block of an element
state_count(e) == IF HasCombs(e) THEN e.combs ELSE 1

Names(net) == DOMAIN net

\* the first table row of element i: elements in network order, num_steps blocks each
RowOffset(net, T, i) == SumOver(1..(i - 1), [j \in 1..(i - 1) |-> state_count(net[j]) * T])

TableLen(net, T) == RowOffset(net, T, Len(net) + 1)

BuildVars(net, T) ==
    [p \in 0..(TableLen(net, T) - 1) |->
        LET i == CHOOSE i \in Names(net) :
                    /\ RowOffset(net, T, i) <= p
                    /\ p < RowOffset(net, T, i + 1)
            q == p - RowOffset(net, T, i)
        IN [name |-> i, time |-> q \div state_count(net[i]), comb |-> q % state_count(net[i])]]

\* sim.vars['name'].unique(): the names in order of first appearance
RECURSIVE UniqueFrom(_, _, _)
UniqueFrom(tbl, p, seen) ==
    IF p \notin DOMAIN tbl THEN <<>>
    ELSE IF tbl[p].name \in seen THEN UniqueFrom(tbl, p + 1, seen)
    ELSE <<tbl[p].name>> \o UniqueFrom(tbl, p + 1, seen \cup {tbl[p].name})

unique_names(tbl) == UniqueFrom(tbl, 0, {})

\* sim.vars.loc[sim.vars['name'] == name].index
NameIndex(tbl, name) == {p \in DOMAIN tbl : tbl[p].name = name}

get_x_idx_open(tbl, name) ==
    <<IndexMin(NameIndex(tbl, name), TableRows(tbl)),
      IndexMax(NameIndex(tbl, name), TableRows(tbl))>>

get_x_idx(tbl, name) ==
    <<IndexMin(NameIndex(tbl, name), TableRows(tbl)),
      PlusOne(IndexMax(NameIndex(tbl, name), TableRows(tbl)))>>

OfKind(net, k) == {i \in Names(net) : net[i].kind = k}

declare_variables(net, T) ==
    ( SumOver(OfKind(net, "pump_station"), [i \in Names(net) |-> net[i].combs])
    + Cardinality(OfKind(net, "vsp"))
    + Cardinality(OfKind(net, "well"))
    + SumOver(OfKind(net, "control_valve"), [i \in Names(net) |-> net[i].combs])
    + Cardinality(OfKind(net, "valve")) ) * T

----------------------------------------------------------------------------
(* Tanks *)

\* tank.vars['demand'], tank.min_vol: one value per step; the other volumes are scalars
TankDemand(k, T) == [t \in 0..(T - 1) |-> 10 * k + t]
TankMinVol(k, T, slope) == [t \in 0..(T - 1) |-> 100 * k + slope * t]
TankMaxVol(k) == 1000 * k
TankFinalVol(k) == 100 * k + 50
TankInitialVol(k) == 100 * k + 70

MinVolSlopes == {0, 3}

\* tank k of the network: is its demand uncertain, which elements fill and drain it
Tank(k, T, unc, inflows, outflows, slope) ==
    [uncertain |-> unc, inflows |-> inflows, outflows |-> outflows,
     demand |-> TankDemand(k, T), min_vol |-> TankMinVol(k, T, slope),
     max_vol |-> TankMaxVol(k), final_vol |-> TankFinalVol(k),
     initial_vol |-> TankInitialVol(k)]

\* self.utanks: the tanks of udata['demand'].elements, in the order of network.tanks
RECURSIVE FilterTanks(_, _, _)
FilterTanks(tks, k, unc) ==
    IF k > Len(tks) THEN <<>>
    ELSE (IF tks[k].uncertain = unc THEN <<k>> ELSE <<>>) \o FilterTanks(tks, k + 1, unc)

utanks(tks) == FilterTanks(tks, 1, TRUE)
dtanks(tks) == FilterTanks(tks, 1, FALSE)

\* np.vstack([...]).T: rows are steps, columns the uncertain tanks
get_nominal_demands(tks, T) ==
    [t \in 0..(T - 1) |->
        [k \in 0..(Len(utanks(tks)) - 1) |-> tks[utanks(tks)[k + 1]].demand[t]]]

\* nominal_demands.shape
Shape(matrix) == <<Cardinality(DOMAIN matrix), Cardinality(DOMAIN matrix[0])>>

\* self.model.rvar(self.nominal_demands.shape)
declare_random_variables(tks, T) == Shape(get_nominal_demands(tks, T))

\* z[:t, :]
ZRows(t, n) == (0..(t - 1)) \X (0..(n - 1))

\* c of adapt_ldr: len(element.combs), or 1 for an element without combs
AdaptC(net, name) == IF HasCombs(net[name]) THEN net[name].combs ELSE 1

\* the steps t of range(1, T) whose slice x[xmin + t * c : xmin + (t + 1) * c] of some
\* element holds position p; r[name] is get_x_idx(name)
AdaptSteps(r, net, T, p) ==
    {t \in 1..(T - 1) : \E name \in DOMAIN r :
        /\ r[name][1].v + t * AdaptC(net, name) <= p
        /\ p < r[name][1].v + (t + 1) * AdaptC(net, name)}

Ranges(tbl, names) == [e \in names |-> get_x_idx(tbl, e)]

adapt_ldr_upto(tbl, net, T, len, n) ==
    CHOOSE d \in {[p \in 0..(len - 1) |-> UNION {ZRows(t + 1, n) : t \in AdaptSteps(r, net, T, p)}]
                    : r \in {Ranges(tbl, SeqRange(unique_names(tbl)))}} : TRUE

\* x[...].adapt(z[:t, :]) for every element of sim.vars['name'].unique() and t in range(1, T)
adapt_ldr(tbl, net, T, len, n) ==
    CHOOSE d \in {[p \in 0..(len - 1) |-> UNION {ZRows(t, n) : t \in AdaptSteps(r, net, T, p)}]
                    : r \in {Ranges(tbl, SeqRange(unique_names(tbl)))}} : TRUE

----------------------------------------------------------------------------
(* ARO.__init__ *)

Returned(op, arg, value) == [op |-> op, arg |-> arg, outcome |-> "return", value |-> value]
Raised(op, arg, err) == [op |-> op, arg |-> arg, outcome |-> err, value |-> <<>>]

Construct ==
    /\ pc = "new"
    /\ IF Len(utanks(tanks)) = 0
       THEN \* np.vstack of an empty list
            /\ pc' = "failed"
            /\ ret' = Raised("__init__", <<>>, "ValueError")
            /\ UNCHANGED <<x_len, z_shape, dep>>
       ELSE /\ pc' = "constructed"
            /\ x_len' = declare_variables(network, num_steps)
            /\ z_shape' = declare_random_variables(tanks, num_steps)
            /\ dep' = adapt_ldr(vars, network, num_steps,
                                declare_variables(network, num_steps), Len(utanks(tanks)))
            /\ ret' = Returned("__init__", <<>>, <<>>)
    /\ UNCHANGED <<cfgvars, model, columns, written, loop>>

\* a call of get_x_idx with any name, of an element or not
GetXIdx(name) ==
    /\ pc = "constructed"
    /\ ret' = Returned("get_x_idx", name, get_x_idx(vars, name))
    /\ UNCHANGED <<cfgvars, arovars, model, columns, written, loop>>

----------------------------------------------------------------------------
(* one_comb_only *)

\* network.comb_elements: the elements that have combs
comb_elements(net) == {i \in Names(net) : HasCombs(net[i])}

\* the rows of the table named name, in table order, numbered from 0
RECURSIVE RowsFrom(_, _, _)
RowsFrom(tbl, name, p) ==
    IF p \notin DOMAIN tbl THEN <<>>
    ELSE (IF tbl[p].name = name THEN <<p>> ELSE <<>>) \o RowsFrom(tbl, name, p + 1)

Positions(tbl, name) ==
    CHOOSE f \in {[j \in 0..(Len(q) - 1) |-> q[j + 1]] : q \in {RowsFrom(tbl, name, 0)}} : TRUE

\* np.hstack([np.repeat(i, c) for i in range(T)]) and np.arange(c * T)
RepeatRows(T, c) == [m \in 0..(c * T - 1) |-> m \div c]
ARange(n) == [m \in 0..(n - 1) |-> m]

\* the (row, col) pairs of np.hstack([np.repeat(i - 1, c * i) for i in range(1, T + 1)])
\* and np.hstack([np.arange(c * (t + 1)) for t in range(T)])
CumulativePairs(T, c) == UNION {{<<i - 1, j>> : j \in 0..(c * i - 1)} : i \in 1..T}

\* np.zeros([nrows, ncols]) with matrix[rows, cols] = v
ZerosSet(nrows, ncols, pairs, v) ==
    [i \in 0..(nrows - 1) |-> [j \in 0..(ncols - 1) |-> IF <<i, j>> \in pairs THEN v ELSE 0]]

IndexPairs(rows, cols) == {<<rows[m], cols[m]>> : m \in DOMAIN rows}

one_comb_matrix_cumulative(T, c) == ZerosSet(T, T * c, CumulativePairs(T, c), 1)

one_comb_matrix(T, c) ==
    ZerosSet(T, T * c, IndexPairs(RepeatRows(T, c), ARange(c * T)), 1)

one_comb_only(tbl, net, T) ==
    {[kind |-> "one_comb_only", element |-> name,
      x |-> Positions(tbl, name),
      matrix |-> one_comb_matrix(T, net[name].combs),
      sense |-> "<=", rhs |-> [i \in 0..(T - 1) |-> 1], forall |-> "z_set"]
     : name \in comb_elements(net)}

OneCombOnly ==
    /\ pc = "constructed"
    /\ pc' = "built"
    /\ model' = model \cup one_comb_only(vars, network, num_steps)
    /\ ret' = Returned("one_comb_only", <<>>, <<>>)
    /\ UNCHANGED <<cfgvars, x_len, z_shape, dep, columns, written, loop>>

----------------------------------------------------------------------------
(* solve and the extraction of the policy *)

MaxStatusCode == 7

\* the status codes the solver reports
SolverCodes == 1..MaxStatusCode

GRB_STATUS == <<"LOADED", "OPTIMAL", "INFEASIBLE", "INF_OR_UNBD", "UNBOUNDED">>

\* which realisation an extraction was made for: None (zeros) or column j of a sample
Nominal == [kind |-> "zeros", j |-> 0]
Column(j) == [kind |-> "column", j |-> j]

NothingWritten == [value |-> <<>>, inflow |-> <<>>]

\* x(z.assign(sample)): position p is its affine rule at the entries of the sample it is
\* adapted to; tanks_balance then recomputes each tank's inflow from these values
get_results_nominal(dp, tks, sample) ==
    [value |-> [p \in DOMAIN dp |-> [sample |-> Nominal, reads |-> dp[p]]],
     inflow |-> [k \in DOMAIN tks |-> [sample |-> Nominal]]]

get_results(dp, tks, sample) ==
    [value |-> [p \in DOMAIN dp |-> [sample |-> sample, reads |-> dp[p]]],
     inflow |-> [k \in DOMAIN tks |-> [sample |-> sample]]]

Solve(status) ==
    /\ pc \in {"constructed", "built"}
    /\ IF status \in DOMAIN GRB_STATUS
       THEN /\ written' = get_results(dep, tanks, Nominal)
            /\ ret' = Returned("solve", status, <<GRB_STATUS[status], "obj">>)
            /\ pc' = IF GRB_STATUS[status] = "OPTIMAL" THEN "solved" ELSE "no_solution"
       ELSE \* GRB_STATUS[status]
            /\ ret' = Raised("solve", status, "KeyError")
            /\ pc' = "failed"
            /\ UNCHANGED written
    /\ UNCHANGED <<cfgvars, x_len, z_shape, dep, model, columns, loop>>

----------------------------------------------------------------------------
(* Construction, index lookup, exclusivity and solve *)

NoTankLinks == {}

\* n >= 1 tanks of uncertain demand, or one tank of certain demand
PlainTanks(T) ==
    {[k \in 1..n |-> Tank(k, T, TRUE, NoTankLinks, NoTankLinks, 0)] : n \in 1..MaxTanks}
    \cup {[k \in 1..1 |-> Tank(k, T, FALSE, NoTankLinks, NoTankLinks, 0)]}

Idle == [at |-> "idle"]

Init ==
    /\ num_steps \in 1..MaxSteps
    /\ network \in Networks
    /\ tanks \in PlainTanks(num_steps)
    /\ vars = BuildVars(network, num_steps)
    /\ pc = "new"
    /\ x_len = 0
    /\ z_shape = <<0, 0>>
    /\ dep = <<>>
    /\ model = {}
    /\ ret = Returned("none", <<>>, <<>>)
    /\ columns = [i \in Names(network) |-> {}]
    /\ written = NothingWritten
    /\ loop = Idle

Next ==
    \/ Construct
    \/ \E name \in 0..(Len(network) + 1) : GetXIdx(name)
    \/ OneCombOnly
    \/ \E status \in SolverCodes : Solve(status)

Spec == Init /\ [][Next]_allvars

----------------------------------------------------------------------------
(* mass_balance *)

\* element.vars['flow']: the flow of the element in the state of a row
FlowOf(name, time, comb) == 2 + comb + 3 * time + 20 * name

\* element.vars[param].to_numpy(): the element's rows, in table order
ElementFlows(tbl, name) ==
    CHOOSE f \in {[j \in DOMAIN pos |-> FlowOf(name, tbl[pos[j]].time, tbl[pos[j]].comb)]
                    : pos \in {Positions(tbl, name)}} : TRUE

flow_direction == [in |-> 1, out |-> 0 - 1]

\* matrix * v with v of the length of a row: column j times v[j]
TimesColumns(matrix, v) ==
    [i \in DOMAIN matrix |-> [j \in DOMAIN matrix[i] |-> matrix[i][j] * v[j]]]

comb_matrix(tbl, net, T, name, inout) ==
    CHOOSE m \in {TimesColumns(ZerosSet(T, T * net[name].combs, pairs, flow_direction[inout]), v)
                    : pairs \in {IndexPairs(RepeatRows(T, net[name].combs),
                                            ARange(net[name].combs * T))},
                      v \in {ElementFlows(tbl, name)}} : TRUE

cumulative_comb_matrix(tbl, net, T, name, inout) ==
    CHOOSE m \in {TimesColumns(ZerosSet(T, T * net[name].combs, pairs, flow_direction[inout]), v)
                    : pairs \in {CumulativePairs(T, net[name].combs)},
                      v \in {ElementFlows(tbl, name)}} : TRUE

\* np.tril_indices(T)
TrilIndices(T) == {ij \in (0..(T - 1)) \X (0..(T - 1)) : ij[2] <= ij[1]}

cumulative_not_comb_matrix(T, inout) == ZerosSet(T, T, TrilIndices(T), flow_direction[inout])

get_cumulative_flow_matrix(tbl, net, T, name, inout) ==
    IF HasCombs(net[name])
    THEN cumulative_comb_matrix(tbl, net, T, name, inout)
    ELSE cumulative_not_comb_matrix(T, inout)

\* tank.vars['demand'].cumsum()
CumDemand(tank, t) == SumOver(0..t, tank.demand)

rhs_min_unshifted(tank, T) ==
    [t \in 0..(T - 1) |-> IF t < T - 1 THEN tank.min_vol[t] ELSE tank.final_vol]

\* np.append(tank.min_vol[1:], tank.final_vol)
rhs_min(tank, T) ==
    [t \in 0..(T - 1) |-> IF t < T - 1 THEN tank.min_vol[t + 1] ELSE tank.final_vol]

\* the direction in which mass_balance takes an element for a tank, "none" when it skips it
Direction(tank, name) ==
    IF name \in tank.inflows THEN "in"
    ELSE IF name \in tank.outflows THEN "out"
    ELSE "none"

\* lhs[tank_idx * T : (tank_idx + 1) * T, xmin_idx : xmax_idx] = mat for the elements in
\* order; r[name] is get_x_idx(name), mats[name] the matrix of a contributing element
RECURSIVE LhsEntry(_, _, _, _, _, _)
LhsEntry(names, r, mats, tank, t, p) ==
    IF names = <<>> THEN 0
    ELSE LET name == names[Len(names)] IN
         IF /\ Direction(tank, name) # "none"
            /\ r[name][1].v <= p /\ p < r[name][2].v
         THEN mats[name][Direction(tank, name)][t][p - r[name][1].v]
         ELSE LhsEntry(SubSeq(names, 1, Len(names) - 1), r, mats, tank, t, p)

FlowMatrices(tbl, net, T) ==
    [name \in SeqRange(unique_names(tbl)) |->
        [inout \in {"in", "out"} |-> get_cumulative_flow_matrix(tbl, net, T, name, inout)]]

\* the two constraints mass_balance declares for the tanks sel (names, in order) of tks;
\* row tank_idx * T + t is tank sel[tank_idx + 1] at step t.  const is the side of the
\* constraint free of z; with an affine_map the demand is scaled by (1 + lou * z_flat[row]),
\* which adds lou * dem[row] * z[zterm[row]] (z.reshape(-1)[row] of z of n columns).
\* w holds what the loops read: the unique names, get_x_idx of each and the flow matrices.
MassBalanceOf(tks, sel, affine, T, xlen, n, w) ==
    {[kind |-> "mass_balance", tanks |-> sel, affine |-> affine,
      sense |-> sense,
      lhs |-> [row \in 0..(Len(sel) * T - 1) |-> [p \in 0..(xlen - 1) |->
                LhsEntry(w[1], w[2], w[3], tks[sel[(row \div T) + 1]], row % T, p)]],
      const |-> [row \in 0..(Len(sel) * T - 1) |->
                (IF sense = "<=" THEN tks[sel[(row \div T) + 1]].max_vol
                                 ELSE rhs_min(tks[sel[(row \div T) + 1]], T)[row % T])
                + CumDemand(tks[sel[(row \div T) + 1]], row % T)
                - tks[sel[(row \div T) + 1]].initial_vol],
      zterm |-> IF affine
                THEN [row \in 0..(Len(sel) * T - 1) |->
                        [z |-> <<row \div n, row % n>>,
                         dem |-> CumDemand(tks[sel[(row \div T) + 1]], row % T)]]
                ELSE <<>>,
      forall |-> "z_set"]
     : sense \in {"<=", ">="}}

mass_balance(tks, tanknames, affine, tbl, net, T, xlen, n) ==
    IF Len(tanknames) = 0 THEN {}
    ELSE UNION {MassBalanceOf(tks, sel, affine, T, xlen, n, w)
                : sel \in {tanknames},
                  w \in {<<unique_names(tbl), Ranges(tbl, SeqRange(unique_names(tbl))),
                          FlowMatrices(tbl, net, T)>>}}

\* build_mass_balance: the tanks of uncertain demand with the affine map, then the others
BuildMassBalance ==
    /\ pc = "constructed"
    /\ pc' = "built"
    /\ model' = model
        \cup mass_balance(tanks, utanks(tanks), TRUE, vars, network, num_steps, x_len, z_shape[2])
        \cup mass_balance(tanks, dtanks(tanks), FALSE, vars, network, num_steps, x_len, z_shape[2])
    /\ ret' = Returned("build_mass_balance", <<>>, <<>>)
    /\ UNCHANGED <<cfgvars, x_len, z_shape, dep, columns, written, loop>>

\* networks of a kind with combs and a kind without
FlowTypes == {e \in ElementTypes : e.kind \in {"pump_station", "vsp"}}
FlowNetworks == UNION {[1..n -> FlowTypes] : n \in 1..MaxElements}

\* which elements fill, drain or pass by a tank: the roles rotate over elements and tanks
RoleCycle == <<"in", "out", "none">>
RoleOf(k, e, shift) == RoleCycle[((k + e + shift) % 3) + 1]

LinkedTanks(net, T) ==
    {[k \in DOMAIN flags |->
        Tank(k, T, flags[k],
             {e \in Names(net) : RoleOf(k, e, ss[1]) = "in"},
             {e \in Names(net) : RoleOf(k, e, ss[1]) = "out"}, ss[2])]
     : flags \in UNION {[1..m -> BOOLEAN] : m \in 1..MaxTanks},
       ss \in (0..2) \X MinVolSlopes}

InitMB ==
    /\ num_steps \in 1..MaxSteps
    /\ network \in FlowNetworks
    /\ tanks \in LinkedTanks(network, num_steps)
    /\ vars = BuildVars(network, num_steps)
    /\ pc = "new"
    /\ x_len = 0
    /\ z_shape = <<0, 0>>
    /\ dep = <<>>
    /\ model = {}
    /\ ret = Returned("none", <<>>, <<>>)
    /\ columns = [i \in Names(network) |-> {}]
    /\ written = NothingWritten
    /\ loop = Idle

NextMB ==
    \/ Construct
    \/ BuildMassBalance

SpecMB == InitMB /\ [][NextMB]_allvars

----------------------------------------------------------------------------
(* vsp_volume and vsp_changes: the scheduling windows *)

MaxFeedRows == 2

OperatorTypes == <<"le", "ge", "eq">>

\* the rows of vsp_volume.csv / vsp_changes.csv: a window [start, end] of steps of a vsp;
\* the i-th row of a feed has the i-th comparison, in rotation, and the target 10 * i
FeedRows(net, T) ==
    {w \in [vsp : OfKind(net, "vsp"), start : 0..(T - 1), end : 0..(T - 1)] : w.start <= w.end}

Feeds(net, T) == UNION {[1..n -> FeedRows(net, T)] : n \in 0..MaxFeedRows}

\* x[xmin_idx : xmax_idx]
XRange(tbl, name) ==
    CHOOSE f \in {[j \in 0..(r[2].v - r[1].v - 1) |-> r[1].v + j] : r \in {get_x_idx(tbl, name)}} : TRUE

\* not_comb_matrix('in') with each row multiplied by aux, summed over the rows
VolumeCoefficients(T, row) ==
    [t \in 0..(T - 1) |->
        SumOver(0..(T - 1),
                [i \in 0..(T - 1) |->
                    (IF i = t THEN 1 ELSE 0) * (IF row.start <= i /\ i <= row.end THEN 1 ELSE 0)])]

\* the identity with -1 below the diagonal and 0 at [0, 0], each row multiplied by aux
ChangesMatrix(T, row) ==
    [i \in 0..(T - 1) |-> [j \in 0..(T - 1) |->
        (IF i = 0 /\ j = 0 THEN 0 ELSE IF i = j THEN 1 ELSE IF i = j + 1 THEN 0 - 1 ELSE 0)
        * (IF row.start < i /\ i < row.end THEN 1 ELSE 0)]]

vsp_volume_constraint(tbl, T, feed, i) ==
    [kind |-> "vsp_volume", element |-> feed[i].vsp, x |-> XRange(tbl, feed[i].vsp),
     coef |-> VolumeCoefficients(T, feed[i]),
     sense |-> OperatorTypes[(i % 3) + 1], rhs |-> 10 * i, forall |-> "z_set"]

vsp_changes_constraint(tbl, T, feed, i) ==
    [kind |-> "vsp_changes", element |-> feed[i].vsp, x |-> XRange(tbl, feed[i].vsp),
     matrix |-> ChangesMatrix(T, feed[i]),
     sense |-> "eq", rhs |-> 0, forall |-> "z_set"]

\* the columns of the elements after the rows of the feed: every row sets vsp.vars['aux'];
\* drop tells whether the row ends with vsp.vars.drop('aux', axis=1)
RECURSIVE AfterRows(_, _, _, _)
AfterRows(cols, feed, i, drop) ==
    IF i > Len(feed) THEN cols
    ELSE AfterRows([cols EXCEPT ![feed[i].vsp] =
                        IF drop THEN (@ \cup {"aux"}) \ {"aux"} ELSE @ \cup {"aux"}],
                   feed, i + 1, drop)

VspVolume(feed) ==
    /\ pc = "constructed"
    /\ pc' = "volume_declared"
    /\ model' = model \cup {vsp_volume_constraint(vars, num_steps, feed, i) : i \in DOMAIN feed}
    /\ columns' = AfterRows(columns, feed, 1, TRUE)
    /\ ret' = Returned("vsp_volume", Len(feed), <<>>)
    /\ UNCHANGED <<cfgvars, x_len, z_shape, dep, written, loop>>

VspChanges(feed) ==
    /\ pc = "volume_declared"
    /\ pc' = "built"
    /\ model' = model \cup {vsp_changes_constraint(vars, num_steps, feed, i) : i \in DOMAIN feed}
    /\ columns' = AfterRows(columns, feed, 1, FALSE)
    /\ ret' = Returned("vsp_changes", Len(feed), <<>>)
    /\ UNCHANGED <<cfgvars, x_len, z_shape, dep, written, loop>>

\* one tank, of uncertain demand
OneTank(T) == {[k \in 1..1 |-> Tank(k, T, TRUE, NoTankLinks, NoTankLinks, 0)]}

InitVsp ==
    /\ num_steps \in 1..MaxSteps
    /\ network \in FlowNetworks
    /\ tanks \in OneTank(num_steps)
    /\ vars = BuildVars(network, num_steps)
    /\ pc = "new"
    /\ x_len = 0
    /\ z_shape = <<0, 0>>
    /\ dep = <<>>
    /\ model = {}
    /\ ret = Returned("none", <<>>, <<>>)
    /\ columns = [i \in Names(network) |-> {}]
    /\ written = NothingWritten
    /\ loop = Idle

NextVsp ==
    \/ Construct
    \/ \E feed \in Feeds(network, num_steps) : VspVolume(feed)
    \/ \E feed \in Feeds(network, num_steps) : VspChanges(feed)

SpecVsp == InitVsp /\ [][NextVsp]_allvars

----------------------------------------------------------------------------
(* analyze_sample and tank_vol_by_sample: the evaluation of a sample, column by column *)

MaxSamples == 2

\* the start of a call on a sample of n columns, for the tanks named
Begin(fn, n, tanknames) ==
    /\ pc = "solved"
    /\ loop = Idle
    /\ IF n = 0
       THEN \* range(0): the loop body never runs
            /\ loop' = Idle
            /\ pc' = "analysed"
            /\ ret' = Returned(fn, n, <<<<>>, [k \in tanknames |-> <<>>]>>)
       ELSE /\ loop' = [at |-> "extract", fn |-> fn, j |-> 0, n |-> n,
                        costs |-> <<>>, vols |-> [k \in tanknames |-> <<>>]]
            /\ UNCHANGED <<pc, ret>>
    /\ UNCHANGED <<cfgvars, x_len, z_shape, dep, model, columns, written>>

AnalyzeSample(n) == Begin("analyze_sample", n, DOMAIN tanks)

TankVolBySample(tank_name, n) == Begin("tank_vol_by_sample", n, {tank_name})

\* self.set_vars_by_sample(sample[:, j]): get_results overwrites the shared columns
SetVarsBySample ==
    /\ loop.at = "extract"
    /\ written' = get_results(dep, tanks, Column(loop.j))
    /\ loop' = [loop EXCEPT !.at = IF loop.fn = "analyze_sample" THEN "cost" ELSE "volume"]
    /\ UNCHANGED <<cfgvars, arovars, model, ret, columns>>

\* (sim.vars['cost'] * sim.vars['value']).sum(): the realisations the value column holds
get_objective_by_sample(w) == [samples |-> {w.value[p].sample : p \in DOMAIN w.value}]

GetObjectiveBySample ==
    /\ loop.at = "cost"
    /\ loop' = [loop EXCEPT !.at = "volume",
                            !.costs = Append(@, get_objective_by_sample(written))]
    /\ UNCHANGED <<cfgvars, arovars, model, ret, columns, written>>

\* initial_vol + (tank_inflow - d).cumsum(): the tank's inflow column and column j of the
\* demand sample
TankVolume(w, k, j) == [inflow |-> w.inflow[k].sample, demand |-> Column(j)]

RecordVolumes ==
    /\ loop.at = "volume"
    /\ LET vols == [k \in DOMAIN loop.vols |-> Append(loop.vols[k], TankVolume(written, k, loop.j))]
       IN IF loop.j + 1 < loop.n
          THEN /\ loop' = [loop EXCEPT !.at = "extract", !.j = @ + 1, !.vols = vols]
               /\ UNCHANGED <<pc, ret>>
          ELSE /\ loop' = Idle
               /\ pc' = "analysed"
               /\ ret' = Returned(loop.fn, loop.n, <<loop.costs, vols>>)
    /\ UNCHANGED <<cfgvars, x_len, z_shape, dep, model, columns, written>>

\* the tanks of a network with one tank of uncertain demand: z has one column
SampleTanks(T) ==
    {[k \in 1..m |-> Tank(k, T, k = u, NoTankLinks, NoTankLinks, 0)] :
        m \in 1..MaxTanks, u \in 1..MaxTanks} \ {<<>>}

InitSample ==
    /\ num_steps \in 1..MaxSteps
    /\ network \in FlowNetworks
    /\ tanks \in {tks \in SampleTanks(num_steps) : Len(utanks(tks)) = 1}
    /\ vars = BuildVars(network, num_steps)
    /\ pc = "new"
    /\ x_len = 0
    /\ z_shape = <<0, 0>>
    /\ dep = <<>>
    /\ model = {}
    /\ ret = Returned("none", <<>>, <<>>)
    /\ columns = [i \in Names(network) |-> {}]
    /\ written = NothingWritten
    /\ loop = Idle

NextSample ==
    \/ Construct
    \/ \E status \in SolverCodes : Solve(status)
    \/ \E n \in 0..MaxSamples : AnalyzeSample(n)
    \/ \E tank_name \in DOMAIN tanks : \E n \in 0..MaxSamples : TankVolBySample(tank_name, n)
    \/ SetVarsBySample
    \/ GetObjectiveBySample
    \/ RecordVolumes

SpecSample == InitSample /\ [][NextSample]_allvars

----------------------------------------------------------------------------
(* Claims on the decision index, the decision rule, exclusivity and solve *)

\* the ranges r of the names cover 0..n-1 once each, e's being state_count(e) * T wide
PartitionOf(r, net, T, n) ==
    /\ \A e \in Names(net) :
        /\ ~r[e][1].nan /\ ~r[e][2].nan
        /\ 0 <= r[e][1].v /\ r[e][2].v <= n
        /\ r[e][2].v - r[e][1].v = state_count(net[e]) * T
    /\ \A p \in 0..(n - 1) :
        Cardinality({e \in Names(net) : r[e][1].v <= p /\ p < r[e][2].v}) = 1

\* C1: the ranges [min_idx, max_idx) that get_x_idx returns for the element names
\* partition [0, N), N the length declared by declare_variables, and the range of
\* element e is state_count(e) * num_steps wide.
C1_IndexRangesPartition ==
    pc \notin {"new", "failed"} =>
        /\ \A r \in {Ranges(vars, Names(network))} :
                PartitionOf(r, network, num_steps, x_len)
        /\ (ret.op = "get_x_idx" /\ ret.arg \in Names(network)) =>
            /\ ret.outcome = "return"
            /\ ~ret.value[1].nan /\ ~ret.value[2].nan
            /\ ret.value[2].v - ret.value[1].v = state_count(network[ret.arg]) * num_steps

C1_Witness ==
    /\ pc = "constructed" /\ ret.op = "get_x_idx" /\ ret.arg = 2
    /\ num_steps >= 2 /\ Len(network) >= 2
    /\ network[1].combs >= 2 /\ network[2].kind = "well"

\* C2: get_x_idx called with a name of no row of the table ends in a LookupError-class
\* error; it never returns a pair of index values.
C2_UnknownNameRaisesLookupError ==
    (ret.op = "get_x_idx" /\ ret.arg \notin Names(network)) =>
        ret.outcome \in {"LookupError", "KeyError", "IndexError"}

\* C3: after adapt_ldr the step-t block of every element depends on exactly the entries
\* z[s, k] with s < t, every column k (on none at step 0), and an extracted value reads
\* the realisation at these entries only.
C3_AdaptationIsCausal ==
    pc \notin {"new", "failed"} =>
        /\ \A p \in DOMAIN vars :
            dep[p] = {sk \in (0..(z_shape[1] - 1)) \X (0..(z_shape[2] - 1)) :
                        sk[1] < vars[p].time}
        /\ written # NothingWritten =>
            \A p \in DOMAIN vars :
                \A sk \in written.value[p].reads : sk[1] < vars[p].time

C3_Witness ==
    /\ pc = "no_solution" /\ written # NothingWritten
    /\ num_steps >= 3 /\ z_shape[2] >= 2
    /\ \E e \in Names(network) : network[e].combs >= 2
    /\ \E p \in DOMAIN dep : Cardinality(dep[p]) >= 4

\* C6: the selector matrix of one_comb_only of an element of C states has shape
\* (num_steps, num_steps * C), its row t is 1 exactly on the columns [t*C, (t+1)*C), and
\* these columns are the element's C state indicators of step t: the constraint is that
\* their sum is <= 1.
C6_OneCombSelector ==
    /\ \A c \in model : c.kind = "one_comb_only" =>
        LET C == network[c.element].combs IN
        /\ DOMAIN c.matrix = 0..(num_steps - 1)
        /\ \A t \in DOMAIN c.matrix :
            /\ DOMAIN c.matrix[t] = 0..(num_steps * C - 1)
            /\ DOMAIN c.x = 0..(num_steps * C - 1)
            /\ \A j \in DOMAIN c.matrix[t] :
                /\ c.matrix[t][j] = (IF t * C <= j /\ j < (t + 1) * C THEN 1 ELSE 0)
                /\ c.matrix[t][j] = 1 =>
                    vars[c.x[j]].name = c.element /\ vars[c.x[j]].time = t
            /\ {vars[c.x[j]].comb : j \in {j \in DOMAIN c.x : c.matrix[t][j] = 1}} = 0..(C - 1)
            /\ c.rhs[t] = 1
        /\ c.sense = "<="
    /\ ret.op = "one_comb_only" =>
        \A e \in comb_elements(network) : \E c \in model : c.element = e

C6_Witness ==
    /\ ret.op = "one_comb_only" /\ num_steps >= 2
    /\ \E c \in model : c.kind = "one_comb_only" /\ network[c.element].combs >= 2

\* C7: solve() returns a (status, objective) pair for every status code the solver
\* reports; it never ends in a raised error.
C7_SolveAlwaysReturns ==
    ret.op = "solve" => ret.outcome = "return" /\ Len(ret.value) = 2

----------------------------------------------------------------------------
(* Claims on the mass balance *)

MassBalances == {c \in model : c.kind = "mass_balance"}

\* the level the constraint c holds the volume of its i-th tank after step t against:
\* initial_vol + (lhs @ x) - cumulative demand is compared with it
VolumeBound(c, i, t) ==
    c.const[(i - 1) * num_steps + t]
    - CumDemand(tanks[c.tanks[i]], t) + tanks[c.tanks[i]].initial_vol

BothDeclared ==
    ret.op = "build_mass_balance" =>
        \A k \in DOMAIN tanks : \A sense \in {"<=", ">="} :
            \E c \in MassBalances : c.sense = sense /\ k \in SeqRange(c.tanks)

\* C4 (as claimed): the volume of every tank after step t is bounded above by max_vol
\* and below by min_vol of the same step t for t < num_steps - 1, by final_vol at the
\* last step.
C4_MinVolOfSameStep ==
    /\ BothDeclared
    /\ \A c \in MassBalances : \A i \in DOMAIN c.tanks : \A t \in 0..(num_steps - 1) :
        /\ c.sense = "<=" => VolumeBound(c, i, t) = tanks[c.tanks[i]].max_vol
        /\ c.sense = ">=" => VolumeBound(c, i, t) =
            (IF t < num_steps - 1 THEN tanks[c.tanks[i]].min_vol[t]
                                  ELSE tanks[c.tanks[i]].final_vol)

\* C4 (amended): the volume of every tank after step t is bounded above by max_vol and
\* below by min_vol of the next step, min_vol[t + 1], for t < num_steps - 1, by final_vol
\* at the last step.
C4_MinVolOfNextStep ==
    /\ BothDeclared
    /\ \A c \in MassBalances : \A i \in DOMAIN c.tanks : \A t \in 0..(num_steps - 1) :
        /\ c.sense = "<=" => VolumeBound(c, i, t) = tanks[c.tanks[i]].max_vol
        /\ c.sense = ">=" => VolumeBound(c, i, t) =
            (IF t < num_steps - 1 THEN tanks[c.tanks[i]].min_vol[t + 1]
                                  ELSE tanks[c.tanks[i]].final_vol)

C4_Witness ==
    /\ ret.op = "build_mass_balance" /\ num_steps >= 3
    /\ \E c \in MassBalances : /\ c.sense = ">=" /\ Len(c.tanks) >= 2
                               /\ \E i \in DOMAIN c.tanks :
                                    tanks[c.tanks[i]].min_vol[1] # tanks[c.tanks[i]].min_vol[0]

\* the flow one unit of the decision at table row p stands for
UnitFlow(p) ==
    IF HasCombs(network[vars[p].name])
    THEN FlowOf(vars[p].name, vars[p].time, vars[p].comb)
    ELSE 1

\* C5: the row of a tank at step t has +1 (-1) times the per-state flow (times 1 for an
\* element without combs) on the positions of steps 0..t of every inflow (outflow)
\* element of the tank, 0 on its positions of later steps, and 0 on every position of an
\* element that is neither.
C5_CumulativeRows ==
    \A c \in MassBalances : \A i \in DOMAIN c.tanks : \A t \in 0..(num_steps - 1) :
        \A p \in DOMAIN vars :
            c.lhs[(i - 1) * num_steps + t][p] =
                (IF vars[p].time > t THEN 0
                 ELSE IF vars[p].name \in tanks[c.tanks[i]].inflows THEN UnitFlow(p)
                 ELSE IF vars[p].name \in tanks[c.tanks[i]].outflows THEN 0 - UnitFlow(p)
                 ELSE 0)

C5_Witness ==
    /\ ret.op = "build_mass_balance" /\ num_steps >= 2
    /\ \E c \in MassBalances : \E i, j \in DOMAIN c.tanks :
        /\ \E e \in tanks[c.tanks[i]].inflows : network[e].combs >= 2
        /\ \E e \in tanks[c.tanks[i]].outflows : ~HasCombs(network[e])
        /\ \E e \in Names(network) :
            e \notin tanks[c.tanks[j]].inflows \cup tanks[c.tanks[j]].outflows

\* C10: with uncertain demand, the row of the k-th uncertain tank at step t scales the
\* tank's cumulative demand by (1 + lou * z[t, k]): the entry of the same tank and step.
C10_DemandScaledBySameEntry ==
    \A c \in MassBalances : c.affine =>
        \A i \in DOMAIN c.tanks : \A t \in 0..(num_steps - 1) :
            /\ c.zterm[(i - 1) * num_steps + t].z = <<t, i - 1>>
            /\ c.zterm[(i - 1) * num_steps + t].dem = CumDemand(tanks[c.tanks[i]], t)

----------------------------------------------------------------------------
(* Claims on the scheduling windows *)

\* C9: after vsp_volume and after vsp_changes return, whatever the rows of their feeds,
\* no element's parameter table has a column it did not have before the call: no 'aux'
\* column is left behind.
C9_AuxIsTransient ==
    ret.op \in {"vsp_volume", "vsp_changes"} =>
        \A e \in Names(network) : "aux" \notin columns[e]

----------------------------------------------------------------------------
(* Claims on the evaluation of samples *)

\* the results of the columns 0..Len-1 of a sample each come from their own column
OwnColumns(costs, vols) ==
    /\ \A i \in DOMAIN costs : costs[i].samples = {Column(i - 1)}
    /\ \A k \in DOMAIN vols : \A i \in DOMAIN vols[k] :
        vols[k][i] = [inflow |-> Column(i - 1), demand |-> Column(i - 1)]

\* C8: in analyze_sample and tank_vol_by_sample the cost and tank volumes recorded at
\* index j are computed from the value / inflow columns written by the extraction for
\* sample j, and the extraction for sample j+1 starts only when the results of sample j
\* are recorded.
C8_OneSampleAtATime ==
    /\ loop.at # "idle" =>
        /\ OwnColumns(loop.costs, loop.vols)
        /\ loop.at = "extract" =>
            /\ \A k \in DOMAIN loop.vols : Len(loop.vols[k]) = loop.j
            /\ loop.fn = "analyze_sample" => Len(loop.costs) = loop.j
        /\ loop.at \in {"cost", "volume"} =>
            /\ \A p \in DOMAIN written.value : written.value[p].sample = Column(loop.j)
            /\ \A k \in DOMAIN written.inflow : written.inflow[k].sample = Column(loop.j)
    /\ ret.op \in {"analyze_sample", "tank_vol_by_sample"} =>
        /\ OwnColumns(ret.value[1], ret.value[2])
        /\ \A k \in DOMAIN ret.value[2] : Len(ret.value[2][k]) = ret.arg
        /\ ret.op = "analyze_sample" => Len(ret.value[1]) = ret.arg

C8_Witness ==
    /\ ret.op = "analyze_sample" /\ ret.arg >= 2
    /\ Len(ret.value[1]) >= 2 /\ Len(tanks) >= 2

====
